---------------------------- MODULE Spec2Model ----------------------------
(***************************************************************************)
(* mcb.pyw, the multiclipboard: one invocation of main() on a persisted    *)
(* shelf.  The shelf is a mapping key -> content; the operator's terminal  *)
(* is the source of every input() outcome: a line of text, an interrupt    *)
(* (CTRL-C, KeyboardInterrupt) or end of input (EOFError).                 *)
(***************************************************************************)
EXTENDS Integers, Sequences, FiniteSets, TLC

(* ------------------------------ bounds -------------------------------- *)

NumKeys == 3

MaxBatch == 2

KeyNames == <<"a", "b", "c", "d">>

Keys == {KeyNames[i] : i \in 1..NumKeys}

\* No operation looks into a content: two distinct ones tell an overwrite
\* from the prior value.
Contents == {"1", "2"}

\* The characters an answer to a (y/n) question is made of, and the answers.
Chars == {"y", "Y", "n", "N", "x"}

Answers == {<<>>} \cup {<<c>> : c \in Chars} \cup {<<"y", "e", "s">>, <<"n", "o">>, <<"x", "y">>}

\* What one call of input() can end in: a line of text, CTRL-C
\* (KeyboardInterrupt) or end of input (EOFError).
LineInputs(T) == {[kind |-> "line", text |-> t] : t \in T}

BreakInputs(none) == {[kind |-> "interrupt", text |-> none], [kind |-> "eof", text |-> none]}

\* At "press ENTER": what is typed before ENTER is not looked at.
EnterInputs == LineInputs({<<>>}) \cup BreakInputs(<<>>)

\* At a (y/n) question.
AnswerInputs == LineInputs(Answers) \cup BreakInputs(<<>>)

NoArg == "-"

NoClip == "<empty>"

(* --------------------------- the shelf -------------------------------- *)

\* shelf[key] = content
Put(shelf, k, c) == [x \in (DOMAIN shelf) \cup {k} |-> IF x = k THEN c ELSE shelf[x]]

\* shelf.pop(key), for a key that is present
Pop(shelf, k) == [x \in (DOMAIN shelf) \ {k} |-> shelf[x]]

Shelves == UNION {[D -> Contents] : D \in SUBSET Keys}

\* str.lower() on one character of Chars
Lower(c) == IF c = "Y" THEN "y" ELSE IF c = "N" THEN "n" ELSE c

(* ------------------------- the operations ----------------------------- *)

\* A variant of add with the write placed before the input(): the shelf is
\* written whatever the operator does.
add_WriteBeforeInput(shelf, content, key, kind) ==
    [shelf |-> Put(shelf, key, content), rc |-> (kind = "line")]

\* add: the outcome of the input() at line 78 decides.  A line: the write and
\* True.  KeyboardInterrupt: "Aborted.", rc stays False.  Anything else
\* (EOFError) is taken by the bare except: rc = False.
add(shelf, content, key, kind) ==
    IF kind = "line"
    THEN [shelf |-> Put(shelf, key, content), rc |-> TRUE]
    ELSE [shelf |-> shelf, rc |-> FALSE]

\* copy, line 107: print(filename[key]) stands before the try block, so a
\* missing key raises KeyError out of copy.
copy_display(shelf, key) == IF key \in DOMAIN shelf THEN "none" ELSE "KeyError"

\* A variant of copy with pyperclip.copy placed before the input().
copy_ClipBeforeInput(shelf, clip, key, kind) ==
    IF key \in DOMAIN shelf
    THEN [clip |-> shelf[key], rc |-> IF kind = "interrupt" THEN 2 ELSE 0]
    ELSE [clip |-> clip, rc |-> 1]

\* copy, lines 110-120: the try block.  "finally: return rc" also swallows an
\* EOFError, with rc still 0.
copy(shelf, clip, key, kind) ==
    IF kind = "line"
    THEN IF key \in DOMAIN shelf
         THEN [clip |-> shelf[key], rc |-> 0]
         ELSE [clip |-> clip, rc |-> 1]
    ELSE IF kind = "interrupt"
         THEN [clip |-> clip, rc |-> 2]
         ELSE [clip |-> clip, rc |-> 0]

\* confirm_delete on the line read: confirm[0] raises IndexError on "".
confirm_delete(confirm) ==
    IF Len(confirm) = 0
    THEN [exc |-> "IndexError", rc |-> FALSE]
    ELSE [exc |-> "none", rc |-> (Lower(confirm[1]) = "y")]

delete_key(shelf, key) ==
    IF key \in DOMAIN shelf
    THEN [shelf |-> Pop(shelf, key), rc |-> 0]
    ELSE [shelf |-> shelf, rc |-> 1]

\* get_interactive, lines 194-199: the answer to "Overwrite its contents?".
get_interactive_overwrite(shelf, content, key, overwrite) ==
    IF Len(overwrite) = 0
    THEN [exc |-> "IndexError", shelf |-> shelf]
    ELSE IF Lower(overwrite[1]) = "n"
         THEN [exc |-> "none", shelf |-> shelf]
         ELSE [exc |-> "none", shelf |-> Put(shelf, key, content)]

\* A variant of the gate with the write placed before the input().
get_interactive_confirm_WriteFirst(shelf, content, key, kind) ==
    [exc |-> IF kind = "eof" THEN "EOFError" ELSE "none",
     shelf |-> Put(shelf, key, content)]

\* get_interactive, lines 205-211: the ENTER / CTRL-C gate before a new key
\* is written.  Only KeyboardInterrupt is caught.
get_interactive_confirm(shelf, content, key, kind) ==
    IF kind = "line"
    THEN [exc |-> "none", shelf |-> Put(shelf, key, content)]
    ELSE IF kind = "interrupt"
         THEN [exc |-> "none", shelf |-> shelf]
         ELSE [exc |-> "EOFError", shelf |-> shelf]

\* A variant of the loop that stops after the first pop, as a loop over a
\* mapping that changes under it would.
purge_loop_OnePop(shelf, ks, n) ==
    IF ks = {}
    THEN [shelf |-> shelf, rc |-> n]
    ELSE [shelf |-> Pop(shelf, CHOOSE x \in ks : TRUE), rc |-> n + 1]

\* purge, lines 252-254: the loop over a snapshot of the keys (a dbm's keys()
\* is a list), popping each and counting.
RECURSIVE purge_loop(_, _, _)
purge_loop(shelf, ks, n) ==
    IF ks = {}
    THEN [shelf |-> shelf, rc |-> n]
    ELSE LET k == CHOOSE x \in ks : TRUE
         IN  purge_loop(Pop(shelf, k), ks \ {k}, n + 1)

purge(shelf, confirm) ==
    IF Len(confirm) = 0
    THEN [exc |-> "IndexError", shelf |-> shelf, rc |-> 0]
    ELSE IF Lower(confirm[1]) = "y"
         THEN [exc |-> "none"] @@ purge_loop(shelf, DOMAIN shelf, 0)
         ELSE [exc |-> "none", shelf |-> shelf, rc |-> 0]

\* main's report after purge returns.
purge_report(n) == IF n = 0 THEN "already_empty" ELSE "success"

\* The status the interpreter exits with: main() never passes a return code
\* to sys.exit, so it is 0 unless an exception leaves main.
ExitStatusOf(e) == IF e = "none" THEN 0 ELSE IF e = "KeyboardInterrupt" THEN 130 ELSE 1

\* The exception an input() that does not return a line raises.
InputExc(kind) == IF kind = "interrupt" THEN "KeyboardInterrupt" ELSE "EOFError"

(* ----------------------------- state ---------------------------------- *)

VARIABLES
    store,       \* the shelf "mcb"
    clipboard,   \* the host clipboard
    pc,          \* where main is: start, a blocking input(), done, fault
    op,          \* the operation main dispatched
    key,         \* main's / get_interactive's key
    content,     \* main's / get_interactive's content
    keys,        \* args.delete
    idx,         \* position of the delete loop in keys
    rc,          \* the int return code of copy / delete_key / purge
    add_rc,      \* the bool return code of add
    exc,         \* the exception that left main, or "none"
    exitStatus,  \* the process exit status, once pc is done or fault
    listed,      \* how often list_keys ran
    report,      \* what main printed after purge
    store0,      \* history: the shelf when main started
    clipboard0,  \* history: the clipboard when main started
    lastKind,    \* history: how the last input() ended
    lastAnswer,  \* history: the last line read at a (y/n) question
    yesKeys,     \* history: the keys confirm_delete returned True for
    notFound,    \* history: the keys delete_key returned 1 for
    asked        \* history: how many confirm_delete prompts were shown

vars == <<store, clipboard, pc, op, key, content, keys, idx, rc, add_rc, exc,
          exitStatus, listed, report, store0, clipboard0, lastKind,
          lastAnswer, yesKeys, notFound, asked>>

hist == <<store0, clipboard0>>

Batches == UNION {[1..n -> Keys] : n \in 1..MaxBatch}

Init ==
    /\ store \in Shelves
    /\ clipboard \in Contents \cup {NoClip}
    /\ pc = "start"
    /\ op = "none"
    /\ key = NoArg
    /\ content = NoArg
    /\ keys = <<>>
    /\ idx = 0
    /\ rc = 0
    /\ add_rc = FALSE
    /\ exc = "none"
    /\ exitStatus = 0
    /\ listed = 0
    /\ report = "none"
    /\ store0 = store
    /\ clipboard0 = clipboard
    /\ lastKind = "none"
    /\ lastAnswer = <<>>
    /\ yesKeys = {}
    /\ notFound = {}
    /\ asked = 0

Terminated == pc \in {"done", "fault"}

\* main returns normally.
Finish(e) ==
    /\ pc' = IF e = "none" THEN "done" ELSE "fault"
    /\ exc' = e
    /\ exitStatus' = ExitStatusOf(e)

(* --------------------------- main: --add ------------------------------ *)

MainAdd ==
    /\ pc = "start"
    /\ \E c \in Contents, k \in Keys :
          /\ op' = "add"
          /\ content' = c
          /\ key' = k
    /\ pc' = "add_input"
    /\ UNCHANGED <<store, clipboard, keys, idx, rc, add_rc, exc, exitStatus,
                   listed, report, hist, lastKind, lastAnswer, yesKeys,
                   notFound, asked>>

AddInput ==
    /\ pc = "add_input"
    /\ \E in \in EnterInputs :
          LET r == add(store, content, key, in.kind)
          IN  /\ store' = r.shelf
              /\ add_rc' = r.rc
              /\ lastKind' = in.kind
    /\ Finish("none")
    /\ UNCHANGED <<clipboard, op, key, content, keys, idx, rc, listed, report,
                   hist, lastAnswer, yesKeys, notFound, asked>>

(* --------------------------- main: --copy ----------------------------- *)

MainCopy ==
    /\ pc = "start"
    /\ \E k \in Keys :
          /\ op' = "copy"
          /\ key' = k
          /\ IF copy_display(store, k) = "none"
             THEN /\ pc' = "copy_input"
                  /\ UNCHANGED <<exc, exitStatus>>
             ELSE Finish(copy_display(store, k))
    /\ UNCHANGED <<store, clipboard, content, keys, idx, rc, add_rc, listed,
                   report, hist, lastKind, lastAnswer, yesKeys, notFound, asked>>

CopyInput ==
    /\ pc = "copy_input"
    /\ \E in \in EnterInputs :
          LET r == copy(store, clipboard, key, in.kind)
          IN  /\ clipboard' = r.clip
              /\ rc' = r.rc
              /\ listed' = IF r.rc = 1 \/ r.rc = 2 THEN listed + 1 ELSE listed
              /\ lastKind' = in.kind
    /\ Finish("none")
    /\ UNCHANGED <<store, op, key, content, keys, idx, add_rc, report, hist,
                   lastAnswer, yesKeys, notFound, asked>>

(* -------------------------- main: --delete ---------------------------- *)

\* "elif (args.delete)": an empty list of keys dispatches nothing.
MainDelete ==
    /\ pc = "start"
    /\ \E ks \in Batches : keys' = ks
    /\ op' = "delete"
    /\ idx' = 1
    /\ asked' = 1
    /\ pc' = "delete_confirm"
    /\ UNCHANGED <<store, clipboard, key, content, rc, add_rc, exc, exitStatus,
                   listed, report, hist, lastKind, lastAnswer, yesKeys, notFound>>

\* A variant of the loop that ends the batch at the first missing key.
DeleteAdvance_StopOnNotFound ==
    IF idx = Len(keys) \/ keys[idx] \in notFound'
    THEN /\ Finish("none")
         /\ UNCHANGED <<idx, asked>>
    ELSE /\ idx' = idx + 1
         /\ asked' = asked + 1
         /\ UNCHANGED <<pc, exc, exitStatus>>

\* The loop goes on to the next key, or main returns.
DeleteAdvance ==
    IF idx = Len(keys)
    THEN /\ Finish("none")
         /\ UNCHANGED <<idx, asked>>
    ELSE /\ idx' = idx + 1
         /\ asked' = asked + 1
         /\ UNCHANGED <<pc, exc, exitStatus>>

\* One turn of the loop of lines 330-335: confirm_delete, then delete_key and,
\* on rc = 1, list_keys.
DeleteConfirm ==
    /\ pc = "delete_confirm"
    /\ \E in \in AnswerInputs :
          /\ lastKind' = in.kind
          /\ IF in.kind # "line"
             THEN /\ Finish(InputExc(in.kind))
                  /\ UNCHANGED <<store, rc, listed, lastAnswer, yesKeys,
                                 notFound, idx, asked>>
             ELSE LET go_ahead == confirm_delete(in.text)
                      d == delete_key(store, keys[idx])
                  IN  /\ lastAnswer' = in.text
                      /\ IF go_ahead.exc # "none"
                         THEN /\ Finish(go_ahead.exc)
                              /\ UNCHANGED <<store, rc, listed, yesKeys,
                                             notFound, idx, asked>>
                         ELSE IF go_ahead.rc
                              THEN /\ store' = d.shelf
                                   /\ rc' = d.rc
                                   /\ yesKeys' = yesKeys \cup {keys[idx]}
                                   /\ notFound' = IF d.rc = 1
                                                  THEN notFound \cup {keys[idx]}
                                                  ELSE notFound
                                   /\ listed' = IF d.rc = 1 THEN listed + 1 ELSE listed
                                   /\ DeleteAdvance
                              ELSE /\ UNCHANGED <<store, rc, listed, yesKeys, notFound>>
                                   /\ DeleteAdvance
    /\ UNCHANGED <<clipboard, op, key, content, keys, add_rc, report, hist>>

(* ------------------------ main: --interactive -------------------------- *)

MainInteractive ==
    /\ pc = "start"
    /\ op' = "interactive"
    /\ pc' = "ia_content"
    /\ UNCHANGED <<store, clipboard, key, content, keys, idx, rc, add_rc, exc,
                   exitStatus, listed, report, hist, lastKind, lastAnswer,
                   yesKeys, notFound, asked>>

\* input("Enter the text you want to save: ")
IaContent ==
    /\ pc = "ia_content"
    /\ \E in \in LineInputs(Contents) \cup BreakInputs(NoArg) :
          /\ lastKind' = in.kind
          /\ IF in.kind = "line"
             THEN /\ content' = in.text
                  /\ pc' = "ia_key"
                  /\ UNCHANGED <<exc, exitStatus>>
             ELSE /\ Finish(InputExc(in.kind))
                  /\ UNCHANGED content
    /\ UNCHANGED <<store, clipboard, op, key, keys, idx, rc, add_rc, listed,
                   report, hist, lastAnswer, yesKeys, notFound, asked>>

\* input("Enter the key you want to save it as: "), then the branch of line 191
IaKey ==
    /\ pc = "ia_key"
    /\ \E in \in LineInputs(Keys) \cup BreakInputs(NoArg) :
          /\ lastKind' = in.kind
          /\ IF in.kind = "line"
             THEN /\ key' = in.text
                  /\ pc' = IF in.text \in DOMAIN store THEN "ia_overwrite" ELSE "ia_confirm"
                  /\ UNCHANGED <<exc, exitStatus>>
             ELSE /\ Finish(InputExc(in.kind))
                  /\ UNCHANGED key
    /\ UNCHANGED <<store, clipboard, op, content, keys, idx, rc, add_rc, listed,
                   report, hist, lastAnswer, yesKeys, notFound, asked>>

\* input("Overwrite its contents? (y/n) ")
IaOverwrite ==
    /\ pc = "ia_overwrite"
    /\ \E in \in AnswerInputs :
          /\ lastKind' = in.kind
          /\ IF in.kind = "line"
             THEN LET r == get_interactive_overwrite(store, content, key, in.text)
                  IN  /\ lastAnswer' = in.text
                      /\ store' = r.shelf
                      /\ Finish(r.exc)
             ELSE /\ Finish(InputExc(in.kind))
                  /\ UNCHANGED <<store, lastAnswer>>
    /\ UNCHANGED <<clipboard, op, key, content, keys, idx, rc, add_rc, listed,
                   report, hist, yesKeys, notFound, asked>>

\* input("Else, press ENTER\n")
IaConfirm ==
    /\ pc = "ia_confirm"
    /\ \E in \in EnterInputs :
          LET r == get_interactive_confirm(store, content, key, in.kind)
          IN  /\ lastKind' = in.kind
              /\ store' = r.shelf
              /\ Finish(r.exc)
    /\ UNCHANGED <<clipboard, op, key, content, keys, idx, rc, add_rc, listed,
                   report, hist, lastAnswer, yesKeys, notFound, asked>>

(* ---------------------- main: --list, --purge, none -------------------- *)

MainList ==
    /\ pc = "start"
    /\ op' = "list"
    /\ listed' = listed + 1
    /\ Finish("none")
    /\ UNCHANGED <<store, clipboard, key, content, keys, idx, rc, add_rc,
                   report, hist, lastKind, lastAnswer, yesKeys, notFound, asked>>

MainPurge ==
    /\ pc = "start"
    /\ op' = "purge"
    /\ pc' = "purge_confirm"
    /\ UNCHANGED <<store, clipboard, key, content, keys, idx, rc, add_rc, exc,
                   exitStatus, listed, report, hist, lastKind, lastAnswer,
                   yesKeys, notFound, asked>>

\* input("Are you sure you want to do this? (y/n) "), the loop, main's report
PurgeConfirm ==
    /\ pc = "purge_confirm"
    /\ \E in \in AnswerInputs :
          /\ lastKind' = in.kind
          /\ IF in.kind = "line"
             THEN LET r == purge(store, in.text)
                  IN  /\ lastAnswer' = in.text
                      /\ store' = r.shelf
                      /\ rc' = r.rc
                      /\ report' = IF r.exc = "none" THEN purge_report(r.rc) ELSE report
                      /\ Finish(r.exc)
             ELSE /\ Finish(InputExc(in.kind))
                  /\ UNCHANGED <<store, rc, report, lastAnswer>>
    /\ UNCHANGED <<clipboard, op, key, content, keys, idx, add_rc, listed,
                   hist, yesKeys, notFound, asked>>

\* No option (the usage text), or an option list that dispatches nothing.
MainHelp ==
    /\ pc = "start"
    /\ op' = "help"
    /\ Finish("none")
    /\ UNCHANGED <<store, clipboard, key, content, keys, idx, rc, add_rc,
                   listed, report, hist, lastKind, lastAnswer, yesKeys,
                   notFound, asked>>

Next ==
    \/ MainAdd
    \/ AddInput
    \/ MainCopy
    \/ CopyInput
    \/ MainDelete
    \/ DeleteConfirm
    \/ MainInteractive
    \/ IaContent
    \/ IaKey
    \/ IaOverwrite
    \/ IaConfirm
    \/ MainList
    \/ MainPurge
    \/ PurgeConfirm
    \/ MainHelp

Spec == Init /\ [][Next]_vars

TypeOK ==
    /\ store \in Shelves
    /\ clipboard \in Contents \cup {NoClip}
    /\ pc \in {"start", "add_input", "copy_input", "delete_confirm", "ia_content",
               "ia_key", "ia_overwrite", "ia_confirm", "purge_confirm", "done", "fault"}
    /\ rc \in 0..(NumKeys + 2)
    /\ add_rc \in BOOLEAN
    /\ exc \in {"none", "KeyError", "IndexError", "KeyboardInterrupt", "EOFError"}

(* ======================== the claims, C1 to C10 ======================== *)

\* C1: add on a key that already exists: when the operator interrupts the
\* prompt the shelf is exactly as it was and add returns False; when the
\* operator presses ENTER the key holds the new content, no other entry
\* changes and add returns True.
C1_AddOverwrite ==
    (op = "add" /\ pc = "done" /\ key \in DOMAIN store0) =>
        /\ lastKind = "interrupt" => (store = store0 /\ add_rc = FALSE)
        /\ lastKind = "line" =>
              /\ DOMAIN store = DOMAIN store0
              /\ store[key] = content
              /\ \A k \in DOMAIN store0 \ {key} : store[k] = store0[k]
              /\ add_rc = TRUE

C1_Witness ==
    /\ op = "add" /\ pc = "done" /\ lastKind = "interrupt"
    /\ key \in DOMAIN store0 /\ store0[key] # content
    /\ store = store0 /\ add_rc = FALSE

\* C2: add on a key that is absent from the shelf performs the put and
\* returns True whatever the operator does.
C2_NewKeyAlwaysWritten ==
    (op = "add" /\ pc = "done" /\ key \notin DOMAIN store0) =>
        /\ key \in DOMAIN store
        /\ store[key] = content
        /\ add_rc = TRUE

\* C3: copy on a key that is absent returns 1 to main, leaves the clipboard
\* alone, raises nothing out of main, and main then lists the shelf.
C3_CopyMissingReturnsNotFound ==
    (op = "copy" /\ Terminated /\ key \notin DOMAIN store0) =>
        /\ exc = "none"
        /\ rc = 1
        /\ clipboard = clipboard0
        /\ listed = 1

\* C4: copy on an existing key writes the clipboard only after ENTER, and then
\* the clipboard holds the stored content and copy returns 0; on an interrupt
\* copy returns 2 and the clipboard keeps its content.  The shelf is unchanged.
C4_CopyExisting ==
    /\ pc = "copy_input" => (clipboard = clipboard0 /\ store = store0)
    /\ (op = "copy" /\ pc = "done") =>
          /\ store = store0
          /\ lastKind = "line" => (clipboard = store0[key] /\ rc = 0)
          /\ lastKind = "interrupt" => (clipboard = clipboard0 /\ rc = 2)
          /\ clipboard # clipboard0 => lastKind = "line"

C4_Witness ==
    /\ op = "copy" /\ pc = "done" /\ lastKind = "line"
    /\ clipboard = store0[key] /\ clipboard # clipboard0 /\ rc = 0

\* C5: the --delete batch: the shelf is the initial shelf minus the keys
\* answered yes; a key answered yes and absent is reported NotFound; and a
\* batch that ends normally has asked about every key of the list.
C5_DeleteBatch ==
    op = "delete" =>
        /\ DOMAIN store = DOMAIN store0 \ yesKeys
        /\ \A k \in DOMAIN store : store[k] = store0[k]
        /\ yesKeys \ DOMAIN store0 \subseteq notFound
        /\ pc = "done" => (idx = Len(keys) /\ asked = Len(keys))

C5_Witness ==
    /\ op = "delete" /\ pc = "done"
    /\ DOMAIN store0 = {"a", "b"}
    /\ keys = <<"c", "a">>
    /\ yesKeys = {"a", "c"}
    /\ notFound = {"c"}
    /\ DOMAIN store = {"b"}

\* C6: an empty line at the (y/n) question of confirm_delete or purge counts
\* as no: nothing is removed, purge returns 0 and the operation goes on
\* normally.
C6_BlankIsNo ==
    (op \in {"delete", "purge"} /\ lastKind = "line" /\ lastAnswer = <<>>) =>
        /\ pc # "fault"
        /\ exc = "none"
        /\ op = "purge" => (pc = "done" /\ rc = 0 /\ store = store0)

\* C7: purge answered with a line starting with y or Y removes every entry and
\* returns the number of entries the shelf held; answered with any other
\* non-empty line it removes nothing and returns 0.
C7_Purge ==
    (op = "purge" /\ pc = "done" /\ lastAnswer # <<>>) =>
        IF lastAnswer[1] \in {"y", "Y"}
        THEN DOMAIN store = {} /\ rc = Cardinality(DOMAIN store0)
        ELSE store = store0 /\ rc = 0

C7_Witness ==
    /\ op = "purge" /\ pc = "done"
    /\ Cardinality(DOMAIN store0) = 2
    /\ DOMAIN store = {} /\ rc = 2

\* C8: get_interactive on a key that already exists: a non-empty answer that
\* does not start with y declines and leaves the shelf unchanged.
C8_OverwriteOnlyOnYes ==
    (/\ op = "interactive" /\ Terminated
     /\ key \in DOMAIN store0
     /\ lastKind = "line" /\ lastAnswer # <<>>
     /\ lastAnswer[1] \notin {"y", "Y"}) => store = store0

\* What the dispatched operation reported.
ReportedFailure ==
    \/ op = "add" /\ add_rc = FALSE
    \/ op = "copy" /\ (rc \in {1, 2} \/ key \notin DOMAIN store0)
    \/ op = "delete" /\ notFound # {}
    \/ exc # "none"

\* C9: the exit status is 0 when the operation reported success and nonzero
\* when it reported NotFound, Aborted or an error.
C9_ExitStatusReflectsOutcome ==
    Terminated => (exitStatus = 0 <=> ~ReportedFailure)

InteractivePrompts == {"ia_content", "ia_key", "ia_overwrite", "ia_confirm"}

\* C10: an interrupt at a prompt of get_interactive, of the delete batch or of
\* purge leaves the shelf as it was when the prompt was shown; and at the
\* new-key gate the key is written if and only if the operator presses ENTER.
C10_InterruptNoMutation ==
    [][/\ (pc \in InteractivePrompts \cup {"delete_confirm", "purge_confirm"}
           /\ lastKind' = "interrupt") => store' = store
       /\ pc = "ia_confirm" =>
             /\ key \in DOMAIN store' <=> lastKind' = "line"
             /\ lastKind' = "line" => store'[key] = content
             /\ \A k \in DOMAIN store : k \in DOMAIN store' /\ store'[k] = store[k]]_vars

C10_Witness ==
    /\ op = "interactive" /\ pc = "done" /\ lastKind = "interrupt"
    /\ key \in Keys /\ key \notin DOMAIN store
    /\ store = store0

\* C11: after --purge, main reports the already-empty shelf only when the
\* purge was confirmed (an answer starting with y or Y) and the shelf held no
\* entry, and reports success only when the count removed is nonzero; a
\* declined purge on a non-empty shelf is never reported as already empty.
C11_EmptyReportOnlyWhenEmpty ==
    (op = "purge" /\ pc = "done") =>
        /\ report = "already_empty" =>
              /\ lastAnswer # <<>>
              /\ lastAnswer[1] \in {"y", "Y"}
              /\ DOMAIN store0 = {}
        /\ report = "success" => (rc # 0 /\ rc = Cardinality(DOMAIN store0))

====
